---------------------------- MODULE Spec2Model ----------------------------
(***************************************************************************)
(* Sentiment classification pipeline of 05_sentiment_analysis.ipynb:       *)
(*   imdb.load_data -> pad_sequences -> Sequential(...) -> rnn.fit with an *)
(*   EarlyStopping callback -> rnn.predict / roc_auc_score.                *)
(*                                                                         *)
(* The notebook is a sequence of calls into tf.keras (run recorded in      *)
(* March 2020, "Train on ... samples" log format of TF 2.0/2.1).  Each     *)
(* call is modelled by what that library does for the arguments the        *)
(* notebook passes.                                                        *)
(*                                                                         *)
(* Model weights are abstracted to the number of the epoch whose training  *)
(* pass produced them (0: the initial weights); a validation score is an   *)
(* integer in 0..MaxScore chosen freely at every epoch.                    *)
(***************************************************************************)
EXTENDS Integers, Sequences, FiniteSets, TLC

\* ------------------------------------------------------------------ bounds
\* rnn.fit(epochs=100): the maximum epoch count, scaled down.
epochs == 6
\* Validation scores (val_AUC) range over 0..MaxScore.
MaxScore == 5

\* vocab_size = 20000 (num_words of load_data, input_dim of Embedding),
\* scaled down.
vocab_size == 5
\* maxlen = 100 (pad_sequences, input_length of Embedding), scaled down.
maxlen == 2
\* Number of reviews of the train split of the corpus (25000), scaled down.
NumReviews == 1
\* Number of sequences handed to pad_sequences when it is checked on its own.
MaxRows == 2
\* Number of training rows whose order within an epoch is followed.
NumShuffled == 3

\* --------------------------------------------------------- program constants
\* imdb.load_data(skip_top=0, oov_char=2, index_from=3); start_char is left
\* at its default, 1.
skip_top == 0
oov_char == 2
index_from == 3
start_char == 1
\* pad_sequences: value is left at its default, 0.
pad_value == 0
\* EarlyStopping(patience=5)
patience == 5
\* rnn.fit(batch_size=32, epochs=100) on the 25000 rows of X_train_padded.
batch_size == 32
fit_epochs == 100
train_samples == 25000
\* EarlyStopping(mode='max'): best starts at -Inf, below every score.
NegInf == -1

Scores == 0 .. MaxScore

VARIABLES
    corpus_train,   \* f['x_train'] of imdb.npz: reviews as frequency ranks
    corpus_test,    \* f['x_test'] of imdb.npz
    X_train,        \* reviews returned by imdb.load_data
    X_test,
    X_train_padded, \* matrices returned by pad_sequences
    X_test_padded,
    pc,             \* position of the notebook: load / normalize / assemble /
                    \* training / validating / earlystopcheck /
                    \* done (fit returned) / scored
    epoch,          \* number of epochs whose training pass has run
    weights,        \* rnn's current weights
    val_AUC,        \* logs['val_AUC'] of the current epoch
    best,           \* early_stopping.best
    wait,           \* early_stopping.wait
    best_weights,   \* early_stopping.best_weights
    stopped_epoch,  \* early_stopping.stopped_epoch (1-based here, 0: none)
    stop_training,  \* rnn.stop_training
    history,        \* training.history, one record per epoch
    y_score,        \* weights rnn.predict scored the held-out set with
    batch,          \* number of training batches run in the current epoch
    batch_start,    \* the slice [batch_start, batch_end) of the epoch's
    batch_end,      \* index array that the latest batch consumed
    index_array,    \* order in which the epoch presents the training rows
    index_array_rerun   \* the same, in a second run of the same fit call

data == <<corpus_train, corpus_test, X_train, X_test, X_train_padded,
          X_test_padded>>

batches == <<batch, batch_start, batch_end>>

orders == <<index_array, index_array_rerun>>

vars == <<data, pc, epoch, weights, val_AUC, best, wait, best_weights,
          stopped_epoch, stop_training, history, y_score, batches, orders>>

\* No weights captured / no prediction made yet.
None == -1

\* State at the call of rnn.fit: on_train_begin of the callbacks has run.
InitTraining ==
    /\ epoch = 0
    /\ weights = 0
    /\ val_AUC = None
    /\ best = NegInf
    /\ wait = 0
    /\ best_weights = None
    /\ stopped_epoch = 0
    /\ stop_training = FALSE
    /\ history = <<>>
    /\ y_score = None
    /\ batch = 0
    /\ batch_start = 0
    /\ batch_end = 0
    /\ index_array = [i \in 1 .. NumShuffled |-> i]
    /\ index_array_rerun = [i \in 1 .. NumShuffled |-> i]

\* The training loop is driven by the validation scores alone: the data
\* cells have run and their matrices do not change any more.
Init ==
    /\ pc = "training"
    /\ corpus_train = <<>>
    /\ corpus_test = <<>>
    /\ X_train = <<>>
    /\ X_test = <<>>
    /\ X_train_padded = <<>>
    /\ X_test_padded = <<>>
    /\ InitTraining

\* Mutant: np.greater_equal, a tie counts as an improvement.
monitor_op_GreaterEqual(current, b) == current >= b

\* EarlyStopping(mode='max'): monitor_op = np.greater, min_delta = 0.
monitor_op(current, b) == current > b

\* Weights after the training pass of epoch e.
TrainedWeights(e) == e

\* Mutant: a last batch that is not full is dropped.
NumBatches_Floor(n, b) == n \div b

\* fit on n samples: the number of batches of an epoch, ceil(n / b).
NumBatches(n, b) == (n + b - 1) \div b

\* The slice of the index array that batch k (1-based) of an epoch takes:
\* (k - 1) * b up to min(n, k * b).
BatchSlice(k, n, b) ==
    <<(k - 1) * b, IF k * b < n THEN k * b ELSE n>>

\* One pass over the training batches: the only writer of the weights.
TrainPass(max_epochs) ==
    /\ pc = "training"
    /\ epoch < max_epochs
    /\ epoch' = epoch + 1
    /\ weights' = TrainedWeights(epoch + 1)
    /\ batch' = NumBatches(train_samples, batch_size)
    /\ batch_start' = BatchSlice(batch', train_samples, batch_size)[1]
    /\ batch_end' = BatchSlice(batch', train_samples, batch_size)[2]
    /\ pc' = "validating"
    /\ UNCHANGED <<data, val_AUC, best, wait, best_weights, stopped_epoch,
                   stop_training, history, y_score>>

\* A training pass with the epoch budget of the model; the order of the
\* rows within the pass is not followed here.
TrainEpoch == TrainPass(epochs) /\ UNCHANGED orders

\* One training batch of the pass: the next slice of the index array is
\* consumed; the last batch of the pass ends the epoch's training.
TrainBatch ==
    /\ pc = "training"
    /\ epoch < fit_epochs
    /\ batch < NumBatches(train_samples, batch_size)
    /\ batch' = batch + 1
    /\ batch_start' = BatchSlice(batch + 1, train_samples, batch_size)[1]
    /\ batch_end' = BatchSlice(batch + 1, train_samples, batch_size)[2]
    /\ IF batch + 1 = NumBatches(train_samples, batch_size)
       THEN /\ epoch' = epoch + 1
            /\ weights' = TrainedWeights(epoch + 1)
            /\ pc' = "validating"
       ELSE UNCHANGED <<epoch, weights, pc>>
    /\ UNCHANGED <<data, val_AUC, best, wait, best_weights, stopped_epoch,
                   stop_training, history, y_score, orders>>

\* Evaluation on validation_data with the current weights; no update.
Validate ==
    /\ pc = "validating"
    /\ \E s \in Scores : val_AUC' = s
    /\ pc' = "earlystopcheck"
    /\ UNCHANGED <<data, epoch, weights, best, wait, best_weights,
                   stopped_epoch, stop_training, history, y_score, batches, orders>>

\* EarlyStopping.on_epoch_end: does this epoch improve on best?
Improved == monitor_op(val_AUC, best)

\* Mutant: an improvement does not reset the counter.
NewWait_NoReset == wait + 1

\* EarlyStopping.on_epoch_end: the wait counter after this epoch.
NewWait == IF Improved THEN 0 ELSE wait + 1

\* Mutant: the callback stops one epoch early.
Triggered_OffByOne == ~Improved /\ NewWait >= patience - 1

\* EarlyStopping.on_epoch_end: does the callback stop training now?
Triggered == ~Improved /\ NewWait >= patience

\* Mutant: restore_best_weights is ignored.
RestoredWeights_NoRestore == weights

\* restore_best_weights=True: set_weights(best_weights) when stopping.
RestoredWeights == IF Triggered THEN best_weights ELSE weights

\* Mutant: the epoch that stops training leaves no record.
HistoryAppend_SkipOnStop ==
    IF Triggered THEN history
    ELSE Append(history, [epoch |-> epoch, val_AUC |-> val_AUC])

\* History.on_epoch_end: the record of the epoch is appended.
HistoryAppend == Append(history, [epoch |-> epoch, val_AUC |-> val_AUC])

\* End of an epoch of rnn.fit: the callbacks' on_epoch_end (EarlyStopping,
\* History), then the loop's test of stop_training and of the epoch count.
OnEpochEndFor(max_epochs) ==
    /\ pc = "earlystopcheck"
    /\ best' = IF Improved THEN val_AUC ELSE best
    /\ wait' = NewWait
    /\ best_weights' = IF Improved THEN weights ELSE best_weights
    /\ stopped_epoch' = IF Triggered THEN epoch ELSE stopped_epoch
    /\ stop_training' = Triggered
    /\ weights' = RestoredWeights
    /\ history' = HistoryAppend
    /\ pc' = IF Triggered \/ epoch = max_epochs THEN "done" ELSE "training"
    /\ batch' = 0
    /\ batch_start' = 0
    /\ batch_end' = 0
    /\ UNCHANGED <<data, epoch, val_AUC, y_score, orders>>

\* The end of an epoch with the epoch budget of the model.
OnEpochEnd == OnEpochEndFor(epochs)

\* rnn.predict(X_test_padded) and roc_auc_score: scoring with the weights
\* the model holds after fit returned.
Predict ==
    /\ pc = "done"
    /\ y_score' = weights
    /\ pc' = "scored"
    /\ UNCHANGED <<data, epoch, weights, val_AUC, best, wait, best_weights,
                   stopped_epoch, stop_training, history, batches, orders>>

Next == TrainEpoch \/ Validate \/ OnEpochEnd \/ Predict

Spec == Init /\ [][Next]_vars

\* The notebook runs its cells one after the other and every call returns:
\* a step that can be taken is taken.
FairSpec == Spec /\ WF_vars(Next)

\* ------------------------------------------------------ the recorded run

\* The val_AUC column of the recorded history table, in millionths.
RecordedValAUC ==
    <<906470, 927469, 937061, 939331, 940975,
      939985, 940456, 938704, 935913, 932601>>

\* Validation of an epoch of the recorded run: the logged val_AUC.
ValidateRecorded ==
    /\ pc = "validating"
    /\ epoch <= Len(RecordedValAUC)
    /\ val_AUC' = RecordedValAUC[epoch]
    /\ pc' = "earlystopcheck"
    /\ UNCHANGED <<data, epoch, weights, best, wait, best_weights,
                   stopped_epoch, stop_training, history, y_score, batches, orders>>

\* The end of an epoch with the epoch budget of the notebook.
OnEpochEndRun == OnEpochEndFor(fit_epochs)

NextRun == TrainBatch \/ ValidateRecorded \/ OnEpochEndRun \/ Predict

\* rnn.fit as the notebook calls it, batch by batch, with the logged
\* validation scores.
SpecRun == Init /\ [][NextRun]_vars

\* --------------------------------------------------- load and normalize

\* Frequency ranks of the words of a review: the last rank load_data keeps,
\* the first it replaces, and the first outside the vocab_size most frequent.
Ranks == {vocab_size - 4, vocab_size - 3, vocab_size + 1}

\* Sequences over S of length 0 .. n.
SeqUpTo(S, n) == UNION {[1 .. m -> S] : m \in 0 .. n}

\* Reviews of the corpus file: short enough to be padded, exactly maxlen
\* once loaded, or long enough to be truncated.
RawReviews == SeqUpTo(Ranks, maxlen)

\* The state before the first data cell: a corpus file, nothing loaded.
\* The test split holds one review.
InitData ==
    /\ pc = "load"
    /\ corpus_train \in [1 .. NumReviews -> RawReviews]
    /\ corpus_test \in {<<x>> : x \in RawReviews}
    /\ X_train = <<>>
    /\ X_test = <<>>
    /\ X_train_padded = <<>>
    /\ X_test_padded = <<>>
    /\ InitTraining

\* load_data: [start_char] + [w + index_from for w in x]
Offset(x) == <<start_char>> \o [i \in 1 .. Len(x) |-> x[i] + index_from]

\* Mutant: the bound is compared with <=, the token num_words is kept.
Filter_OffByOne(w, num_words) ==
    IF skip_top <= w /\ w <= num_words THEN w ELSE oov_char

\* Mutant: num_words is ignored, every word is kept.
Filter_NoLimit(w, num_words) == IF skip_top <= w THEN w ELSE oov_char

\* load_data: w if skip_top <= w < num_words else oov_char
Filter(w, num_words) == IF skip_top <= w /\ w < num_words THEN w ELSE oov_char

\* load_data on one review of the corpus file.
LoadReview(x, num_words) ==
    [i \in 1 .. Len(x) + 1 |-> Filter(Offset(x)[i], num_words)]

\* The orders np.random.shuffle can leave the indices 1 .. n in.
ShuffledIndices(n) == {p \in [1 .. n -> 1 .. n] : \A i \in 1 .. n : \E j \in 1 .. n : p[j] = i}

\* load_data on one split, its reviews taken in the order indices.
LoadSplit(xs, indices, num_words) ==
    [i \in 1 .. Len(xs) |-> LoadReview(xs[indices[i]], num_words)]

\* imdb.load_data(seed=42, num_words=vocab_size, ...): each split is
\* shuffled (np.random.shuffle of its indices, a permutation fixed by the
\* seed) and loaded.
LoadData ==
    /\ pc = "load"
    /\ \E indices \in ShuffledIndices(Len(corpus_train)) :
           X_train' = LoadSplit(corpus_train, indices, vocab_size)
    /\ \E indices \in ShuffledIndices(Len(corpus_test)) :
           X_test' = LoadSplit(corpus_test, indices, vocab_size)
    /\ pc' = "normalize"
    /\ UNCHANGED <<corpus_train, corpus_test, X_train_padded, X_test_padded,
                   epoch, weights, val_AUC, best, wait, best_weights,
                   stopped_epoch, stop_training, history, y_score, batches, orders>>

\* Mutant: truncating='post', s[:maxlen].
Truncate_Post(s, n) == IF Len(s) > n THEN SubSeq(s, 1, n) ELSE s

\* pad_sequences, truncating='pre': s[-maxlen:]
Truncate(s, n) == IF Len(s) > n THEN SubSeq(s, Len(s) - n + 1, Len(s)) ELSE s

\* Mutant: padding='post', the tokens first and the pad values after them.
PadRow_Post(s, n) ==
    LET trunc == Truncate(s, n)
    IN  [i \in 1 .. n |-> IF i <= Len(trunc) THEN trunc[i] ELSE pad_value]

\* pad_sequences, padding='pre': a row of n entries filled with value,
\* the last len(trunc) of them overwritten by trunc (an empty sequence
\* leaves the row as it is).
PadRow(s, n) ==
    LET trunc == Truncate(s, n)
    IN  [i \in 1 .. n |-> IF i <= n - Len(trunc) THEN pad_value
                          ELSE trunc[i - (n - Len(trunc))]]

NonEmpty(s) == Len(s) > 0

\* Mutant: an empty sequence gets no row.
pad_sequences_DropEmpty(sequences, n) ==
    LET kept == SelectSeq(sequences, NonEmpty)
    IN  [idx \in 1 .. Len(kept) |-> PadRow(kept[idx], n)]

\* pad_sequences(sequences, truncating='pre', padding='pre', maxlen=n)
pad_sequences(sequences, n) ==
    [idx \in 1 .. Len(sequences) |-> PadRow(sequences[idx], n)]

\* The two pad_sequences calls of the notebook.
PadSequences ==
    /\ pc = "normalize"
    /\ X_train_padded' = pad_sequences(X_train, maxlen)
    /\ X_test_padded' = pad_sequences(X_test, maxlen)
    /\ pc' = "assemble"
    /\ UNCHANGED <<corpus_train, corpus_test, X_train, X_test,
                   epoch, weights, val_AUC, best, wait, best_weights,
                   stopped_epoch, stop_training, history, y_score, batches, orders>>

NextData == LoadData \/ PadSequences

SpecData == InitData /\ [][NextData]_vars

\* pad_sequences on its own, on any collection of sequences (the empty
\* sequence and sequences longer than maxlen included).
PadTokens == {start_char, oov_char}

PadInputs == SeqUpTo(PadTokens, maxlen + 1)

InitPad ==
    /\ pc = "normalize"
    /\ corpus_train = <<>>
    /\ corpus_test = <<>>
    /\ X_train \in SeqUpTo(PadInputs, MaxRows)
    /\ X_test = <<>>
    /\ X_train_padded = <<>>
    /\ X_test_padded = <<>>
    /\ InitTraining

NextPad == PadSequences

SpecPad == InitPad /\ [][NextPad]_vars

\* ------------------------------------------- the order within an epoch

\* A training pass of rnn.fit as the notebook calls it: shuffle is left at
\* its default, True, so the pass takes the rows in a freshly shuffled
\* order.  The shuffle draws from the library's random generator, whose
\* state is no argument of the call: a second run of the same call draws
\* its own order.
TrainEpochShuffled ==
    /\ TrainPass(fit_epochs)
    /\ index_array' \in ShuffledIndices(NumShuffled)
    /\ index_array_rerun' \in ShuffledIndices(NumShuffled)

NextShuffle == TrainEpochShuffled \/ ValidateRecorded \/ OnEpochEndRun \/ Predict

\* Two runs of the fit call on the same training matrix, epoch by epoch.
SpecShuffle == Init /\ [][NextShuffle]_vars

\* ------------------------------------------- load and normalize: claims

\* pad_sequences has returned.
Normalized == pc = "assemble"

\* C4: a review longer than the target length maxlen has as its row
\* exactly its last maxlen tokens, in their order: tokens are dropped from
\* the front only.
C4_TruncationKeepsTail ==
    Normalized =>
        \A c \in {<<X_train, X_train_padded>>, <<X_test, X_test_padded>>} :
            \A idx \in 1 .. Len(c[1]) :
                LET s == c[1][idx]
                    row == c[2][idx]
                IN  Len(s) > maxlen =>
                        /\ Len(row) = maxlen
                        /\ \A i \in 1 .. maxlen : row[i] = s[Len(s) - maxlen + i]

C4_Witness ==
    /\ Normalized
    /\ \E idx \in 1 .. Len(X_train) :
           /\ Len(X_train[idx]) > maxlen
           /\ X_train[idx][1] # X_train[idx][Len(X_train[idx]) - maxlen + 1]
           /\ X_train[idx][maxlen] # X_train[idx][Len(X_train[idx])]

\* C5: a review shorter than maxlen has a row whose first maxlen - len
\* entries are the pad value 0 and whose last len entries are its tokens
\* in their order: padding is added on the left only.
C5_PaddingOnTheLeft ==
    Normalized =>
        \A c \in {<<X_train, X_train_padded>>, <<X_test, X_test_padded>>} :
            \A idx \in 1 .. Len(c[1]) :
                LET s == c[1][idx]
                    row == c[2][idx]
                IN  Len(s) < maxlen =>
                        /\ Len(row) = maxlen
                        /\ \A i \in 1 .. maxlen - Len(s) : row[i] = 0
                        /\ \A i \in 1 .. Len(s) : row[maxlen - Len(s) + i] = s[i]

C5_Witness ==
    /\ Normalized
    /\ \E idx \in 1 .. Len(X_train) :
           /\ Len(X_train[idx]) > 0
           /\ Len(X_train[idx]) < maxlen
           /\ X_train_padded[idx][1] = 0
           /\ X_train_padded[idx][maxlen] = X_train[idx][Len(X_train[idx])]

\* The row of a review: maxlen entries, the review right-aligned in them.
IsRowOf(row, s) ==
    /\ DOMAIN row = 1 .. maxlen
    /\ \A i \in 1 .. maxlen :
           row[i] = IF i <= maxlen - Len(s) THEN 0 ELSE s[Len(s) - maxlen + i]

\* C6: whatever the lengths of the reviews (shorter than, equal to or
\* longer than maxlen, length 0 included), the matrix has exactly one row
\* per review, in the order of the reviews, and every row has exactly
\* maxlen entries.
C6_OneRowPerReview ==
    Normalized =>
        /\ Len(X_train_padded) = Len(X_train)
        /\ Len(X_test_padded) = Len(X_test)
        /\ \A idx \in 1 .. Len(X_train) :
               IsRowOf(X_train_padded[idx], X_train[idx])
        /\ \A idx \in 1 .. Len(X_test) :
               IsRowOf(X_test_padded[idx], X_test[idx])

C6_Witness ==
    /\ Normalized
    /\ Len(X_train_padded) = 2
    /\ Len(X_train[1]) = 0
    /\ Len(X_train[2]) > maxlen
    /\ Len(X_train_padded[1]) = maxlen
    /\ Len(X_train_padded[2]) = maxlen

\* Embedding(input_dim=vocab_size): the indices the lookup accepts.
EmbeddingIndices == 0 .. vocab_size - 1

\* The entries of a matrix, or the tokens of a collection of reviews.
Entries(m) == {m[i][j] : <<i, j>> \in {ij \in (DOMAIN m) \X (1 .. maxlen + 2) :
                                        ij[2] \in DOMAIN m[ij[1]]}}

\* C7: across load and normalize, every token of a loaded review and
\* every entry of the normalized matrices lies in [0, vocab_size), the
\* range of the embedding table built with input_dim = vocab_size.
C7_IndicesInRange ==
    /\ Entries(X_train) \subseteq EmbeddingIndices
    /\ Entries(X_test) \subseteq EmbeddingIndices
    /\ Entries(X_train_padded) \subseteq EmbeddingIndices
    /\ Entries(X_test_padded) \subseteq EmbeddingIndices

C7_Witness ==
    /\ Normalized
    /\ vocab_size - 1 \in Entries(X_train_padded)
    /\ oov_char \in Entries(X_train_padded)
    /\ 0 \in Entries(X_test_padded)
    /\ vocab_size - 3 \in Entries(corpus_train)

\* The reviews xs of the corpus file and the loaded reviews X correspond
\* in some order, and every word of xs ranked outside the num_words most
\* frequent is the out-of-vocabulary value in X.
OutsideTopReplaced(xs, X, num_words) ==
    /\ Len(X) = Len(xs)
    /\ \E indices \in ShuffledIndices(Len(xs)) :
           \A i \in 1 .. Len(xs) :
               /\ Len(X[i]) = Len(xs[indices[i]]) + 1
               /\ \A j \in 1 .. Len(xs[indices[i]]) :
                      xs[indices[i]][j] > num_words => X[i][j + 1] = 2

\* C8: every token of the corpus whose word is ranked outside the
\* vocab_size most frequent is replaced by the out-of-vocabulary value 2 in
\* the reviews load_data returns, in the train and in the test collection.
C8_OutOfVocabularyReplaced ==
    pc # "load" =>
        /\ OutsideTopReplaced(corpus_train, X_train, vocab_size)
        /\ OutsideTopReplaced(corpus_test, X_test, vocab_size)

C8_Witness ==
    /\ pc = "normalize"
    /\ vocab_size + 1 \in Entries(corpus_train)
    /\ vocab_size + 1 \in Entries(corpus_test)
    /\ oov_char \in Entries(X_train)
    /\ oov_char \in Entries(X_test)

\* The tokens load_data can emit: the start marker, the out-of-vocabulary
\* value, and the words from index_from + 1 upward.
LoaderToken(t) == t = 1 \/ t = 2 \/ t >= 4

\* C18: in every row of the normalized matrix the pad value 0 occurs only
\* as a contiguous prefix: the loader never emits 0, no 0 follows a
\* non-zero entry, and the number of leading zeros of a row is
\* max(0, maxlen - review length).
C18_ZerosOnlyAsPrefix ==
    /\ \A t \in Entries(X_train) \cup Entries(X_test) : LoaderToken(t)
    /\ Normalized =>
          \A c \in {<<X_train, X_train_padded>>, <<X_test, X_test_padded>>} :
              \A idx \in 1 .. Len(c[1]) :
                  \A i \in 1 .. maxlen :
                      c[2][idx][i] = 0 <=> i <= maxlen - Len(c[1][idx])

C18_Witness ==
    /\ Normalized
    /\ X_train_padded[1][1] = 0
    /\ X_train_padded[1][maxlen] # 0
    /\ X_test_padded[1][1] # 0

\* The reviews xs of the corpus file and the loaded reviews X correspond
\* in some order; a loaded review starts with the start marker, and a word
\* of rank r is the token r + 3 when r + 3 < num_words and 2 otherwise, so
\* that the words kept are those of rank 1 .. num_words - 4.
ExactlyFiltered(xs, X, num_words) ==
    /\ Len(X) = Len(xs)
    /\ \E indices \in ShuffledIndices(Len(xs)) :
           \A i \in 1 .. Len(xs) :
               LET x == xs[indices[i]]
               IN  /\ Len(X[i]) = Len(x) + 1
                   /\ X[i][1] = 1
                   /\ \A j \in 1 .. Len(x) :
                          /\ X[i][j + 1] = IF x[j] + 3 < num_words
                                           THEN x[j] + 3 ELSE 2
                          /\ X[i][j + 1] = x[j] + 3 <=>
                                x[j] \in 1 .. num_words - 4

\* C19: with index_from = 3, skip_top = 0, oov_char = 2 and num_words =
\* vocab_size the loader keeps a word token exactly when its offset index
\* (rank + 3) is below vocab_size and otherwise replaces it by 2: the
\* tokens kept are exactly those of the words of rank 1 .. vocab_size - 4.
C19_KeptBelowVocabSize ==
    pc # "load" =>
        /\ ExactlyFiltered(corpus_train, X_train, vocab_size)
        /\ ExactlyFiltered(corpus_test, X_test, vocab_size)

C19_Witness ==
    /\ pc = "normalize"
    /\ vocab_size - 4 \in Entries(corpus_train)
    /\ vocab_size - 3 \in Entries(corpus_train)
    /\ vocab_size - 1 \in Entries(X_train)
    /\ oov_char \in Entries(X_train)
    /\ ~(vocab_size \in Entries(X_train))

\* ------------------------------------------------------ training: claims

\* The validation score recorded for epoch j.
Val(j) == history[j].val_AUC

\* Number of epochs whose end-of-epoch callbacks have run.
Completed == IF pc \in {"validating", "earlystopcheck"} THEN epoch - 1 ELSE epoch

\* Epoch k scores strictly above every earlier epoch (the peak of the
\* sequence so far) and the scores strictly decrease over k+1 .. k+patience.
PeakThenDecreasing(k) ==
    /\ k + patience <= Len(history)
    /\ \A j \in 1 .. k - 1 : Val(j) < Val(k)
    /\ \A j \in k .. k + patience - 1 : Val(j + 1) < Val(j)

BestScore == CHOOSE m \in {Val(j) : j \in 1 .. Len(history)} :
                 \A j \in 1 .. Len(history) : Val(j) <= m

\* C2: in every run that reaches Done (by the early-stop trigger or by
\* exhausting the epoch count), the held-out set is finally scored with
\* the weights of an epoch that has the best validation score.
C2_ScoredWithBestEpoch ==
    pc = "scored" => (y_score \in 1 .. Len(history) /\ Val(y_score) = BestScore)

\* The last patience epochs did not improve on the epochs before them.
NoImprovementForPatience ==
    /\ Len(history) > patience
    /\ \A j \in (Len(history) - patience + 1) .. Len(history) :
           \E i \in 1 .. (Len(history) - patience) : Val(j) <= Val(i)

\* C3: the training loop always terminates: Done is eventually reached,
\* only by the early-stop trigger (no improvement for patience consecutive
\* epochs) or by completing the last epoch, and no run executes more than
\* the maximum number of epochs.
C3_Terminates ==
    /\ <>(pc = "done")
    /\ [](pc \in {"done", "scored"} => (stop_training \/ epoch = epochs))
    /\ [](stop_training => (pc \in {"done", "scored"} /\ NoImprovementForPatience))
    /\ [](epoch <= epochs /\ Len(history) <= epochs)

C3_Witness ==
    /\ pc = "done"
    /\ stop_training
    /\ NoImprovementForPatience
    /\ Len(history) >= 2
    /\ Val(2) = Val(1)

\* C9: the history is append-only with exactly one record per completed
\* epoch, in epoch order; the record is appended whether or not the epoch
\* set a new best (the epoch that triggers early stopping included), and
\* earlier records are never changed or removed.
C9_HistoryAppendOnly ==
    /\ [](/\ Len(history) = Completed
          /\ \A i \in 1 .. Len(history) : history[i].epoch = i)
    /\ [][/\ Len(history') >= Len(history)
          /\ SubSeq(history', 1, Len(history)) = history
          /\ (pc = "earlystopcheck" =>
                /\ Len(history') = Len(history) + 1
                /\ history'[Len(history')].val_AUC = val_AUC)]_vars

C9_Witness ==
    /\ pc = "done"
    /\ stop_training
    /\ Len(history) = epoch
    /\ Val(Len(history)) < BestScore

\* Every epoch after the first scores at most what the first scored.
NeverImprovesAfterFirst ==
    /\ Len(history) >= 1
    /\ \A j \in 2 .. Len(history) : Val(j) <= Val(1)

\* C10: a run whose validation score never improves after epoch 1 is not
\* an error: it reaches Done (stopped by the callback at the end of epoch
\* 1 + patience) and the weights reported as best, left in the model and
\* used for scoring are those of the end of epoch 1.
C10_NeverImproves ==
    NeverImprovesAfterFirst =>
        /\ best_weights = TrainedWeights(1)
        /\ best = Val(1)
        /\ Len(history) <= 1 + patience
        /\ Len(history) = 1 + patience =>
              /\ pc \in {"done", "scored"}
              /\ stop_training
              /\ weights = TrainedWeights(1)
        /\ pc = "scored" => y_score = TrainedWeights(1)
        /\ (pc \in {"training", "validating", "earlystopcheck"}) => ENABLED Next

C10_Witness ==
    /\ pc = "scored"
    /\ NeverImprovesAfterFirst
    /\ Len(history) = 1 + patience
    /\ Val(2) = Val(1)
    /\ y_score = TrainedWeights(1)

\* The lowest epoch that scored the highest validation score so far.
EarliestBestEpoch ==
    CHOOSE k \in 1 .. Len(history) :
        /\ Val(k) = BestScore
        /\ \A j \in 1 .. k - 1 : Val(j) < BestScore

\* C15: at the end of every epoch's early-stop check the tracked best
\* score is the maximum validation score over the completed epochs and the
\* captured weights are those of the earliest epoch that attained it: a
\* later epoch that only equals the best does not replace them.
C15_BestIsEarliestMaximum ==
    Len(history) >= 1 =>
        /\ best = BestScore
        /\ best_weights = TrainedWeights(EarliestBestEpoch)

C15_Witness ==
    /\ pc = "training"
    /\ Len(history) >= 3
    /\ \E j \in 1 .. Len(history) :
           /\ j > EarliestBestEpoch
           /\ Val(j) = BestScore
    /\ EarliestBestEpoch > 1
    /\ best_weights = TrainedWeights(EarliestBestEpoch)

\* The score of the epoch under check is above that of every epoch before.
StrictlyImproving == \A j \in 1 .. Len(history) : val_AUC > Val(j)

\* C16: the counter of consecutive non-improving epochs is 0 right after
\* every strictly improving epoch and grows by exactly 1 on every other
\* epoch; it stays within 0 .. patience, and the callback stops training
\* exactly at the first epoch end where it reaches patience.
C16_WaitCounter ==
    /\ [](/\ wait \in 0 .. patience
          /\ stop_training <=> wait = patience
          /\ stop_training =>
                (pc \in {"done", "scored"} /\ stopped_epoch = Len(history)))
    /\ [][IF pc = "earlystopcheck"
          THEN wait' = IF StrictlyImproving THEN 0 ELSE wait + 1
          ELSE wait' = wait]_vars

C16_Witness ==
    /\ pc = "done"
    /\ wait = patience
    /\ stop_training
    /\ Len(history) = 1 + patience

\* C17: the first epoch always improves on the initial best, so the
\* callback never stops training before epoch patience + 1: every run
\* completes at least patience + 1 = 6 epochs and its history has at least
\* 6 records.
C17_NoStopBeforePatiencePlusOne ==
    /\ Len(history) >= 1 => best_weights # None
    /\ stop_training => epoch >= patience + 1
    /\ pc \in {"done", "scored"} =>
          (epoch >= 6 /\ Len(history) >= 6 /\ epoch >= patience + 1)

C17_Witness ==
    /\ pc = "done"
    /\ stop_training
    /\ epoch = patience + 1
    /\ Len(history) = 6

\* ------------------------------------------------ the recorded run: claims

\* Number of examples the latest batch consumed.
BatchLen == batch_end - batch_start

\* C11 as stated: within an epoch every one of the 25,000 training
\* examples is consumed by exactly one batch, and every batch of the epoch
\* holds exactly 32 examples.
C11_EveryBatchFull ==
    /\ batch >= 1 => BatchLen = 32
    /\ pc = "validating" => batch_end = 25000

\* C11, amended: the batches of an epoch take consecutive slices of the
\* epoch's index array, from position 0 to position 25,000, so that every
\* example is consumed by exactly one batch; each of the first 781 batches
\* holds exactly 32 examples and the last, the 782nd, holds the other 8.
C11_LastBatchPartial ==
    /\ [](/\ batch \in 1 .. 781 => (BatchLen = 32 /\ batch_end = 32 * batch)
          /\ batch >= 782 => (batch = 782 /\ BatchLen = 8 /\ batch_end = 25000)
          /\ pc \in {"validating", "earlystopcheck"} =>
                (batch = 782 /\ batch_end = 25000))
    /\ [][batch' = batch + 1 => batch_start' = batch_end]_vars

C11_Witness ==
    /\ pc = "validating"
    /\ epoch = 2
    /\ batch = 782
    /\ batch_start = 24992
    /\ batch_end = 25000

\* C14: for the recorded run training stops after eight epochs and the
\* weights of the best epoch are recovered.
C14_StopsAfterEightEpochs ==
    pc \in {"done", "scored"} =>
        /\ epoch = 8
        /\ Len(history) = 8
        /\ stop_training
        /\ weights = best_weights

\* ------------------------------------------ the order within an epoch: claims

\* C12: two runs of the training call as written, on the same training
\* matrix, present the examples to the training step in the same order in
\* every epoch.
C12_SameOrderInEveryRun == index_array_rerun = index_array

=============================================================================
